---------------------------- MODULE Spec2Model ----------------------------
(***************************************************************************)
(* A model of the CHIP-8 core of src/src/chip8.c: the machine state        *)
(* (struct chip8), initChip8, loadChip8, emulateChip8Cycle and             *)
(* updateChip8Timers.                                                      *)
(*                                                                         *)
(* The machine is one record, chip8, whose fields carry the names of the   *)
(* C struct.  Every C function is an operator from a machine record to a   *)
(* machine record, written statement by statement as a chain of record     *)
(* updates; an action applies one function to the variable.                *)
(*                                                                         *)
(* Two fields of the record are not fields of the struct:                  *)
(*   proc : where the process is ("initialized" after initChip8,           *)
(*          "running" once a ROM is loaded, "exited" after exit(5));       *)
(*   oob  : the arrays of the struct that the code has indexed outside     *)
(*          their bounds so far.                                           *)
(*                                                                         *)
(* Undefined behaviour.  An out-of-bounds read yields a byte the model     *)
(* does not know (ub.junk, drawn from JunkBytes).  An out-of-bounds write  *)
(* never lands in the array it indexes; the write to registers[15], the    *)
(* byte that follows the 15-cell register array, is either lost to the     *)
(* modelled fields or lands in carryRegister (ub.alias), the field the     *)
(* architecture identifies with register 0xF.  soundFlag is not assigned   *)
(* by initChip8 and starts with either value.                              *)
(***************************************************************************)
EXTENDS Integers, Sequences, FiniteSets, TLC

VARIABLES chip8

vars == <<chip8>>

---------------------------------------------------------------------------
(* Program constants (chip8.c lines 9-19).                                 *)

PROGRAM_MEMORY_ADDRESS == 512
MEMORY_SIZE == 4096
NUM_OF_PIXELS == 2048
NUM_OF_REGISTERS == 15
NUM_OF_STACK_LEVELS == 16
NUM_OF_KEYS == 16
SCREEN_WIDTH == 64
SCREEN_HEIGHT == 32
FONTSET_SIZE == 80

(* Byte is unsigned char, DoubleByte is unsigned short.                    *)
ByteModulus == 256
DoubleByteModulus == 65536

fontset ==
  << 240, 144, 144, 144, 240,
      32,  96,  32,  32, 112,
     240,  16, 240, 128, 240,
     240,  16, 240,  16, 240,
     144, 144, 240,  16,  16,
     240, 128, 240,  16, 240,
     240, 128, 240, 144, 240,
     240,  16,  32,  64,  64,
     240, 144, 240, 144, 240,
     240, 144, 240,  16, 240,
     240, 144, 240, 144, 144,
     224, 144, 224, 144, 224,
     240, 128, 128, 128, 240,
     224, 144, 144, 144, 224,
     240, 128, 240, 128, 240,
     240, 128, 240, 128, 128 >>

---------------------------------------------------------------------------
(* Bounds of the model.                                                    *)

\* how many of ByteList the arithmetic ROMs use as register contents
NumBytes == 5
\* how many of ByteList the skip ROMs use as contents and immediates
NumSkipBytes == 3
\* how many of ByteList the ROMs of undefined words use as contents
NumUnknownBytes == 2
\* how many of RegList the ROMs use as register operands
NumRegs == 4
\* how many of JunkList an out-of-bounds read may return
NumJunk == 2
\* how many of RandList rand() may return
NumRand == 2
\* how many of KeyList the host presses and releases
NumHostKeys == 2
\* how many of AddrList the jump ROMs use as targets
NumAddrs == 3
\* how many of XList / YList the sprite ROMs use as coordinates
NumXs == 5
NumYs == 4
\* the longest run of consecutive ticks the timer properties look at
MaxTicks == 6
\* the sprite ROMs draw 0..MaxHeight rows
MaxHeight == 2
\* the timer ROMs set the timers to 0..MaxTimer
MaxTimer == 3

ByteList == << 255, 1, 2, 0, 128, 254, 127, 3 >>
RegList  == << 0, 1, 14, 15, 2, 3 >>
JunkList == << 0, 1, 255, 7 >>
RandList == << 0, 255, 170, 85 >>
KeyList  == << 15, 3, 0, 9 >>
AddrList == << 512, 4095, 768, 0, 2 >>
XList    == << 0, 60, 64, 57, 56, 63, 255 >>
YList    == << 0, 31, 32, 30, 28 >>

Pick(list, n) == { list[i] : i \in 1..(IF n < Len(list) THEN n ELSE Len(list)) }

ByteSample == Pick(ByteList, NumBytes)
SkipBytes  == Pick(ByteList, NumSkipBytes)
UnknownBytes == Pick(ByteList, NumUnknownBytes)
AddrSample == Pick(AddrList, NumAddrs)
XSample    == Pick(XList, NumXs)
YSample    == Pick(YList, NumYs)
RegSample  == Pick(RegList, NumRegs)
JunkBytes  == Pick(JunkList, NumJunk)
RandBytes  == Pick(RandList, NumRand)
HostKeys   == Pick(KeyList, NumHostKeys)

---------------------------------------------------------------------------
(* C integer operators on naturals.                                        *)

RECURSIVE BitAnd(_, _)
BitAnd(a, b) ==
  IF a = 0 \/ b = 0 THEN 0
  ELSE (a % 2) * (b % 2) + 2 * BitAnd(a \div 2, b \div 2)

RECURSIVE BitOr(_, _)
BitOr(a, b) ==
  IF a = 0 THEN b
  ELSE IF b = 0 THEN a
  ELSE (IF a % 2 = 1 \/ b % 2 = 1 THEN 1 ELSE 0) + 2 * BitOr(a \div 2, b \div 2)

RECURSIVE BitXor(_, _)
BitXor(a, b) ==
  IF a = 0 THEN b
  ELSE IF b = 0 THEN a
  ELSE ((a + b) % 2) + 2 * BitXor(a \div 2, b \div 2)

\* a value stored into a Byte / DoubleByte lvalue
ToByte(v) == v % ByteModulus
ToDoubleByte(v) == v % DoubleByteModulus

(* The fields of an instruction word, as the masks and shifts of the code  *)
(* extract them.                                                           *)
Family(op) == op \div 4096           \* opcode & 0xF000 (as its top nibble)
FieldX(op) == (op \div 256) % 16     \* (opcode & 0x0F00) >> 8
FieldY(op) == (op \div 16) % 16      \* (opcode & 0x00F0) >> 4
FieldN(op) == op % 16                \* opcode & 0x000F
FieldNN(op) == op % 256              \* opcode & 0x00FF
FieldNNN(op) == op % 4096            \* opcode & 0x0FFF

---------------------------------------------------------------------------
(* initChip8, loadChip8, updateChip8Timers.                                *)

\* The struct before initChip8 has run: only soundFlag, which initChip8
\* leaves alone, matters.
Uninitialized(sf) ==
  [ programCounter |-> 0, opcode |-> 0, indexRegister |-> 0, stackPointer |-> 0,
    drawFlag |-> FALSE,
    pixels |-> [p \in 0..(NUM_OF_PIXELS - 1) |-> 0],
    stack |-> [s \in 0..(NUM_OF_STACK_LEVELS - 1) |-> 0],
    registers |-> [r \in 0..(NUM_OF_REGISTERS - 1) |-> 0],
    carryRegister |-> 0,
    keys |-> [k \in 0..(NUM_OF_KEYS - 1) |-> FALSE],
    memory |-> [a \in 0..(MEMORY_SIZE - 1) |-> 0],
    soundTimer |-> 0, delayTimer |-> 0,
    soundFlag |-> sf,
    proc |-> "initialized", oob |-> {} ]

initChip8(c) ==
  [ c EXCEPT
      !.programCounter = PROGRAM_MEMORY_ADDRESS,
      !.opcode = 0,
      !.indexRegister = 0,
      !.stackPointer = 0,
      !.drawFlag = FALSE,
      !.pixels = [p \in 0..(NUM_OF_PIXELS - 1) |-> 0],
      !.stack = [s \in 0..(NUM_OF_STACK_LEVELS - 1) |-> 0],
      !.registers = [r \in 0..(NUM_OF_REGISTERS - 1) |-> 0],
      !.carryRegister = 0,
      !.keys = [k \in 0..(NUM_OF_KEYS - 1) |-> FALSE],
      !.memory = [a \in 0..(MEMORY_SIZE - 1) |->
                    IF a < FONTSET_SIZE THEN fontset[a + 1] ELSE 0],
      !.soundTimer = 0,
      !.delayTimer = 0,
      !.proc = "initialized",
      !.oob = {} ]

\* rom is the byte sequence read from the file; a ROM larger than
\* 4096 - 0x200 bytes is refused and nothing is loaded.
loadChip8(c, rom) ==
  IF MEMORY_SIZE - PROGRAM_MEMORY_ADDRESS < Len(rom)
  THEN c
  ELSE [ c EXCEPT
           !.memory = [a \in 0..(MEMORY_SIZE - 1) |->
                         IF a >= PROGRAM_MEMORY_ADDRESS /\ a < PROGRAM_MEMORY_ADDRESS + Len(rom)
                         THEN rom[a - PROGRAM_MEMORY_ADDRESS + 1]
                         ELSE c.memory[a]],
           !.proc = "running" ]

\* updateChip8Timers with the test soundTimer == 1 lost: every decrement of
\* the sound timer raises the flag
updateChip8Timers_RaiseOnEveryTick(c) ==
  LET c1 == IF c.delayTimer > 0
            THEN [c EXCEPT !.delayTimer = c.delayTimer - 1]
            ELSE c
  IN  IF c1.soundTimer > 0
      THEN [c1 EXCEPT !.soundFlag = TRUE, !.soundTimer = c1.soundTimer - 1]
      ELSE c1

updateChip8Timers(c) ==
  LET c1 == IF c.delayTimer > 0
            THEN [c EXCEPT !.delayTimer = c.delayTimer - 1]
            ELSE c
  IN  IF c1.soundTimer > 0
      THEN LET c2 == IF c1.soundTimer = 1
                     THEN [c1 EXCEPT !.soundFlag = TRUE]
                     ELSE c1
           IN  [c2 EXCEPT !.soundTimer = c2.soundTimer - 1]
      ELSE c1

---------------------------------------------------------------------------
(* emulateChip8Cycle.                                                      *)
(*                                                                         *)
(* Inside one cycle the machine is a working record w: the struct with the *)
(* register array widened to the 16 cells an opcode field can index (cell  *)
(* 15 is the byte behind the array, of unknown content ub.junk) and with   *)
(* touched, the arrays indexed out of bounds in this cycle.                *)

Enter(c, ub) ==
  [ programCounter |-> c.programCounter, opcode |-> c.opcode,
    indexRegister |-> c.indexRegister, stackPointer |-> c.stackPointer,
    drawFlag |-> c.drawFlag, pixels |-> c.pixels, stack |-> c.stack,
    registers |-> [r \in 0..NUM_OF_REGISTERS |->
                     IF r < NUM_OF_REGISTERS THEN c.registers[r] ELSE ub.junk],
    carryRegister |-> c.carryRegister, keys |-> c.keys, memory |-> c.memory,
    soundTimer |-> c.soundTimer, delayTimer |-> c.delayTimer,
    soundFlag |-> c.soundFlag, proc |-> c.proc, oob |-> c.oob,
    touched |-> {} ]

\* The cycle's result as a struct again.  A write to registers[15] shows as
\* a changed cell 15; under ub.alias it lands in carryRegister.
Leave(w, ub) ==
  [ programCounter |-> w.programCounter, opcode |-> w.opcode,
    indexRegister |-> w.indexRegister, stackPointer |-> w.stackPointer,
    drawFlag |-> w.drawFlag, pixels |-> w.pixels, stack |-> w.stack,
    registers |-> [r \in 0..(NUM_OF_REGISTERS - 1) |-> w.registers[r]],
    carryRegister |-> IF ub.alias /\ w.registers[NUM_OF_REGISTERS] # ub.junk
                      THEN w.registers[NUM_OF_REGISTERS]
                      ELSE w.carryRegister,
    keys |-> w.keys, memory |-> w.memory,
    soundTimer |-> w.soundTimer, delayTimer |-> w.delayTimer,
    soundFlag |-> w.soundFlag, proc |-> w.proc,
    oob |-> w.oob \cup w.touched ]

Touch(w, array) == [w EXCEPT !.touched = @ \cup {array}]

\* registers[i] is indexed by an opcode field
UseReg(w, i) == IF i >= NUM_OF_REGISTERS THEN Touch(w, "registers") ELSE w

SetReg(w, i, v) == [w EXCEPT !.registers[i] = ToByte(v)]

\* memory[a] as an rvalue, and the record after the read
MemByte(w, a, ub) == IF a < MEMORY_SIZE THEN w.memory[a] ELSE ub.junk

UseMem(w, a) == IF a >= MEMORY_SIZE THEN Touch(w, "memory") ELSE w

\* memory[a] = v
SetMem(w, a, v) ==
  IF a < MEMORY_SIZE
  THEN [w EXCEPT !.memory[a] = ToByte(v)]
  ELSE Touch(w, "memory")

\* programCounter += n
AdvancePc(w, n) == [w EXCEPT !.programCounter = ToDoubleByte(@ + n)]

\* printf("Unknown opcode ..."); exit(5);
ExitUnknown(w) == [w EXCEPT !.proc = "exited"]

\* chip8->opcode = (memory[pc] << 8) | memory[pc + 1]
Fetch(w, ub) ==
  LET pc == w.programCounter
      w1 == UseMem(UseMem(w, pc), pc + 1)
  IN  [w1 EXCEPT !.opcode = BitOr(MemByte(w, pc, ub) * 256, MemByte(w, pc + 1, ub))]

Op00E0(w) ==
  LET w1 == [w EXCEPT !.pixels = [p \in 0..(NUM_OF_PIXELS - 1) |-> 0]]
      w2 == AdvancePc(w1, 2)
  IN  [w2 EXCEPT !.drawFlag = TRUE]

\* Op00EE with programCounter += 2 lost: the return lands on the call
Op00EE_OntoTheCall(w, ub) ==
  LET w1 == [w EXCEPT !.stackPointer = ToDoubleByte(@ + DoubleByteModulus - 1)]
      sp == w1.stackPointer
  IN  IF sp < NUM_OF_STACK_LEVELS
      THEN [w1 EXCEPT !.programCounter = w1.stack[sp]]
      ELSE [Touch(w1, "stack") EXCEPT !.programCounter = ub.junk]

Op00EE(w, ub) ==
  LET w1 == [w EXCEPT !.stackPointer = ToDoubleByte(@ + DoubleByteModulus - 1)]
      sp == w1.stackPointer
      w2 == IF sp < NUM_OF_STACK_LEVELS
            THEN [w1 EXCEPT !.programCounter = w1.stack[sp]]
            ELSE [Touch(w1, "stack") EXCEPT !.programCounter = ub.junk]
  IN  AdvancePc(w2, 2)

Op1NNN(w) == [w EXCEPT !.programCounter = FieldNNN(w.opcode)]

Op2NNN(w) ==
  LET sp == w.stackPointer
      w1 == IF sp < NUM_OF_STACK_LEVELS
            THEN [w EXCEPT !.stack[sp] = w.programCounter]
            ELSE Touch(w, "stack")
      w2 == [w1 EXCEPT !.stackPointer = ToDoubleByte(@ + 1)]
  IN  [w2 EXCEPT !.programCounter = FieldNNN(w.opcode)]

Op3XNN(w) ==
  LET x == FieldX(w.opcode)
      w1 == UseReg(w, x)
  IN  IF w1.registers[x] = FieldNN(w.opcode) THEN AdvancePc(w1, 4) ELSE AdvancePc(w1, 2)

Op4XNN(w) ==
  LET x == FieldX(w.opcode)
      w1 == UseReg(w, x)
  IN  IF w1.registers[x] # FieldNN(w.opcode) THEN AdvancePc(w1, 4) ELSE AdvancePc(w1, 2)

\* case 0x5000: the low nibble is not looked at
Op5XY0(w) ==
  LET x == FieldX(w.opcode)
      y == FieldY(w.opcode)
      w1 == UseReg(UseReg(w, x), y)
  IN  IF w1.registers[x] = w1.registers[y] THEN AdvancePc(w1, 4) ELSE AdvancePc(w1, 2)

Op6XNN(w) ==
  LET x == FieldX(w.opcode)
  IN  AdvancePc(SetReg(UseReg(w, x), x, FieldNN(w.opcode)), 2)

Op7XNN(w) ==
  LET x == FieldX(w.opcode)
      w1 == UseReg(w, x)
  IN  AdvancePc(SetReg(w1, x, w1.registers[x] + FieldNN(w.opcode)), 2)

Op8XY0(w) ==
  LET x == FieldX(w.opcode)
      y == FieldY(w.opcode)
      w1 == UseReg(UseReg(w, x), y)
  IN  AdvancePc(SetReg(w1, x, w1.registers[y]), 2)

Op8XY1(w) ==
  LET x == FieldX(w.opcode)
      y == FieldY(w.opcode)
      w1 == UseReg(UseReg(w, x), y)
  IN  AdvancePc(SetReg(w1, x, BitOr(w1.registers[x], w1.registers[y])), 2)

Op8XY2(w) ==
  LET x == FieldX(w.opcode)
      y == FieldY(w.opcode)
      w1 == UseReg(UseReg(w, x), y)
  IN  AdvancePc(SetReg(w1, x, BitAnd(w1.registers[x], w1.registers[y])), 2)

Op8XY3(w) ==
  LET x == FieldX(w.opcode)
      y == FieldY(w.opcode)
      w1 == UseReg(UseReg(w, x), y)
  IN  AdvancePc(SetReg(w1, x, BitXor(w1.registers[x], w1.registers[y])), 2)

\* the carry test reads registers[x] after the sum has been stored in it
Op8XY4(w) ==
  LET x == FieldX(w.opcode)
      y == FieldY(w.opcode)
      w1 == [UseReg(UseReg(w, x), y) EXCEPT !.carryRegister = 0]
      w2 == SetReg(w1, x, w1.registers[x] + w1.registers[y])
      w3 == IF w2.registers[y] > 255 - w2.registers[x]
            THEN [w2 EXCEPT !.carryRegister = 1]
            ELSE w2
  IN  AdvancePc(w3, 2)

Op8XY5(w) ==
  LET x == FieldX(w.opcode)
      y == FieldY(w.opcode)
      w1 == [UseReg(UseReg(w, x), y) EXCEPT !.carryRegister = 1]
      w2 == IF w1.registers[y] > w1.registers[x]
            THEN [w1 EXCEPT !.carryRegister = 0]
            ELSE w1
      w3 == SetReg(w2, x, w2.registers[x] + ByteModulus - w2.registers[y])
  IN  AdvancePc(w3, 2)

Op8XY6(w) ==
  LET x == FieldX(w.opcode)
      w1 == UseReg(w, x)
      w2 == [w1 EXCEPT !.carryRegister = w1.registers[x] % 2]
      w3 == SetReg(w2, x, w2.registers[x] \div 2)
  IN  AdvancePc(w3, 2)

Op8XY7(w) ==
  LET x == FieldX(w.opcode)
      y == FieldY(w.opcode)
      w1 == [UseReg(UseReg(w, x), y) EXCEPT !.carryRegister = 1]
      w2 == IF w1.registers[x] > w1.registers[y]
            THEN [w1 EXCEPT !.carryRegister = 0]
            ELSE w1
      w3 == SetReg(w2, x, w2.registers[y] + ByteModulus - w2.registers[x])
  IN  AdvancePc(w3, 2)

Op8XYE(w) ==
  LET x == FieldX(w.opcode)
      w1 == UseReg(w, x)
      w2 == [w1 EXCEPT !.carryRegister = w1.registers[x] \div 128]
      w3 == SetReg(w2, x, w2.registers[x] * 2)
  IN  AdvancePc(w3, 2)

\* case 0x9000: the low nibble is not looked at
Op9XY0(w) ==
  LET x == FieldX(w.opcode)
      y == FieldY(w.opcode)
      w1 == UseReg(UseReg(w, x), y)
  IN  IF w1.registers[x] # w1.registers[y] THEN AdvancePc(w1, 4) ELSE AdvancePc(w1, 2)

OpANNN(w) == AdvancePc([w EXCEPT !.indexRegister = FieldNNN(w.opcode)], 2)

\* opcode & 0x0FFF + registers[0]: + binds tighter than &
OpBNNN(w) ==
  [w EXCEPT !.programCounter = ToDoubleByte(BitAnd(w.opcode, 4095 + w.registers[0]))]

OpCXNN(w, ub) ==
  LET x == FieldX(w.opcode)
  IN  AdvancePc(SetReg(UseReg(w, x), x, BitAnd(ub.rnd, FieldNN(w.opcode))), 2)

(* DXYK.  The column loop of one sprite row, from column on: the clip test  *)
(* breaks out of the loop, a set sprite bit XORs its cell.                 *)
RECURSIVE DrawColumns(_, _, _, _, _, _, _)
DrawColumns(w, row, column, spriteRowData, xpos, ypos, ub) ==
  IF column >= 8 THEN w
  ELSE IF xpos + column > SCREEN_WIDTH \/ ypos + row > SCREEN_HEIGHT THEN w
  ELSE
    LET cell == xpos + column + ((ypos + row) * 64)
        bit == (spriteRowData \div (2 ^ (7 - column))) % 2
        w1 == IF bit = 0 THEN w
              ELSE IF cell < NUM_OF_PIXELS
              THEN [w EXCEPT !.carryRegister = IF w.pixels[cell] = 1 THEN 1 ELSE @,
                             !.pixels[cell] = BitXor(@, 1)]
              ELSE [Touch(w, "pixels") EXCEPT
                             !.carryRegister = IF ub.junk = 1 THEN 1 ELSE @]
    IN  DrawColumns(w1, row, column + 1, spriteRowData, xpos, ypos, ub)

RECURSIVE DrawRows(_, _, _, _, _, _)
DrawRows(w, row, height, xpos, ypos, ub) ==
  IF row >= height THEN w
  ELSE
    LET a == w.indexRegister + row
        w1 == UseMem(w, a)
        w2 == DrawColumns(w1, row, 0, MemByte(w1, a, ub), xpos, ypos, ub)
    IN  DrawRows(w2, row + 1, height, xpos, ypos, ub)

OpDXYK(w, ub) ==
  LET x == FieldX(w.opcode)
      y == FieldY(w.opcode)
      w1 == [UseReg(UseReg(w, x), y) EXCEPT !.carryRegister = 0]
      w2 == DrawRows(w1, 0, FieldN(w.opcode), w1.registers[x], w1.registers[y], ub)
      w3 == [w2 EXCEPT !.drawFlag = TRUE]
  IN  AdvancePc(w3, 2)

\* keys[k] as an rvalue
KeyDown(w, k, ub) == IF k < NUM_OF_KEYS THEN w.keys[k] ELSE ub.junk # 0

UseKey(w, k) == IF k >= NUM_OF_KEYS THEN Touch(w, "keys") ELSE w

OpEX9E(w, ub) ==
  LET x == FieldX(w.opcode)
      w1 == UseReg(w, x)
      k == w1.registers[x]
      w2 == UseKey(w1, k)
      pressed == KeyDown(w1, k, ub)
  IN  IF pressed THEN AdvancePc(w2, 4) ELSE AdvancePc(w2, 2)

OpEXA1(w, ub) ==
  LET x == FieldX(w.opcode)
      w1 == UseReg(w, x)
      k == w1.registers[x]
      w2 == UseKey(w1, k)
      pressed == KeyDown(w1, k, ub)
  IN  IF ~pressed THEN AdvancePc(w2, 4) ELSE AdvancePc(w2, 2)

OpFX07(w) ==
  LET x == FieldX(w.opcode)
  IN  AdvancePc(SetReg(UseReg(w, x), x, w.delayTimer), 2)

\* the key loop of FX0A from key on: every pressed key advances the
\* program counter and stores its index
RECURSIVE ScanKeys(_, _)
ScanKeys(w, key) ==
  IF key >= NUM_OF_KEYS THEN w
  ELSE IF w.keys[key]
       THEN LET x == FieldX(w.opcode)
            IN  ScanKeys(SetReg(UseReg(AdvancePc(w, 2), x), x, key), key + 1)
       ELSE ScanKeys(w, key + 1)

\* OpFX0A with the early return lost: the cycle moves on without a key
OpFX0A_NoWait(w) ==
  IF \A key \in 0..(NUM_OF_KEYS - 1) : ~w.keys[key]
  THEN AdvancePc(w, 2)
  ELSE ScanKeys(w, 0)

\* OpFX0A that releases the keys it has read
OpFX0A_ConsumesKeys(w) ==
  [ScanKeys(w, 0) EXCEPT !.keys = [k \in 0..(NUM_OF_KEYS - 1) |-> FALSE]]

\* with no key pressed the function returns with nothing changed
OpFX0A(w) == ScanKeys(w, 0)

OpFX15(w) ==
  LET x == FieldX(w.opcode)
      w1 == UseReg(w, x)
  IN  AdvancePc([w1 EXCEPT !.delayTimer = w1.registers[x]], 2)

OpFX18(w) ==
  LET x == FieldX(w.opcode)
      w1 == UseReg(w, x)
  IN  AdvancePc([w1 EXCEPT !.soundTimer = w1.registers[x]], 2)

OpFX1E(w) ==
  LET x == FieldX(w.opcode)
      w1 == UseReg(w, x)
  IN  AdvancePc([w1 EXCEPT !.indexRegister = ToDoubleByte(@ + w1.registers[x])], 2)

OpFX29(w) ==
  LET x == FieldX(w.opcode)
      w1 == UseReg(w, x)
  IN  AdvancePc([w1 EXCEPT !.indexRegister = ToDoubleByte(w1.registers[x] * 5)], 2)

OpFX33(w) ==
  LET x == FieldX(w.opcode)
      w1 == UseReg(w, x)
      v == w1.registers[x]
      i == w1.indexRegister
      w2 == SetMem(w1, i, v \div 100)
      w3 == SetMem(w2, i + 1, (v \div 10) % 10)
      w4 == SetMem(w3, i + 2, v % 10)
  IN  AdvancePc(w4, 2)

RECURSIVE StoreRegs(_, _, _)
StoreRegs(w, r, x) ==
  IF r > x THEN w
  ELSE StoreRegs(SetMem(UseReg(w, r), w.indexRegister + r, w.registers[r]), r + 1, x)

OpFX55(w) == AdvancePc(StoreRegs(w, 0, FieldX(w.opcode)), 2)

RECURSIVE LoadRegs(_, _, _, _)
LoadRegs(w, r, x, ub) ==
  IF r > x THEN w
  ELSE LET a == w.indexRegister + r
       IN  LoadRegs(SetReg(UseReg(UseMem(w, a), r), r, MemByte(w, a, ub)), r + 1, x, ub)

OpFX65(w, ub) == AdvancePc(LoadRegs(w, 0, FieldX(w.opcode), ub), 2)

(* The two switch levels.                                                  *)
Family0(w, ub) ==
  CASE FieldNNN(w.opcode) = 224 -> Op00E0(w)
    [] FieldNNN(w.opcode) = 238 -> Op00EE(w, ub)
    [] OTHER -> ExitUnknown(w)

Family8(w) ==
  CASE FieldN(w.opcode) = 0 -> Op8XY0(w)
    [] FieldN(w.opcode) = 1 -> Op8XY1(w)
    [] FieldN(w.opcode) = 2 -> Op8XY2(w)
    [] FieldN(w.opcode) = 3 -> Op8XY3(w)
    [] FieldN(w.opcode) = 4 -> Op8XY4(w)
    [] FieldN(w.opcode) = 5 -> Op8XY5(w)
    [] FieldN(w.opcode) = 6 -> Op8XY6(w)
    [] FieldN(w.opcode) = 7 -> Op8XY7(w)
    [] FieldN(w.opcode) = 14 -> Op8XYE(w)
    [] OTHER -> ExitUnknown(w)

\* the switch of the 0xE family has no default: any other low byte falls
\* through with nothing done
FamilyE(w, ub) ==
  CASE FieldNN(w.opcode) = 158 -> OpEX9E(w, ub)
    [] FieldNN(w.opcode) = 161 -> OpEXA1(w, ub)
    [] OTHER -> w

FamilyF(w, ub) ==
  CASE FieldNN(w.opcode) = 7 -> OpFX07(w)
    [] FieldNN(w.opcode) = 10 -> OpFX0A(w)
    [] FieldNN(w.opcode) = 21 -> OpFX15(w)
    [] FieldNN(w.opcode) = 24 -> OpFX18(w)
    [] FieldNN(w.opcode) = 30 -> OpFX1E(w)
    [] FieldNN(w.opcode) = 41 -> OpFX29(w)
    [] FieldNN(w.opcode) = 51 -> OpFX33(w)
    [] FieldNN(w.opcode) = 85 -> OpFX55(w)
    [] FieldNN(w.opcode) = 101 -> OpFX65(w, ub)
    [] OTHER -> ExitUnknown(w)

Execute(w, ub) ==
  CASE Family(w.opcode) = 0 -> Family0(w, ub)
    [] Family(w.opcode) = 1 -> Op1NNN(w)
    [] Family(w.opcode) = 2 -> Op2NNN(w)
    [] Family(w.opcode) = 3 -> Op3XNN(w)
    [] Family(w.opcode) = 4 -> Op4XNN(w)
    [] Family(w.opcode) = 5 -> Op5XY0(w)
    [] Family(w.opcode) = 6 -> Op6XNN(w)
    [] Family(w.opcode) = 7 -> Op7XNN(w)
    [] Family(w.opcode) = 8 -> Family8(w)
    [] Family(w.opcode) = 9 -> Op9XY0(w)
    [] Family(w.opcode) = 10 -> OpANNN(w)
    [] Family(w.opcode) = 11 -> OpBNNN(w)
    [] Family(w.opcode) = 12 -> OpCXNN(w, ub)
    [] Family(w.opcode) = 13 -> OpDXYK(w, ub)
    [] Family(w.opcode) = 14 -> FamilyE(w, ub)
    [] Family(w.opcode) = 15 -> FamilyF(w, ub)

\* one cycle on the working record, under one resolution ub of what the C
\* standard leaves open
Cycle(c, ub) == Execute(Fetch(Enter(c, ub), ub), ub)

UbDefault == [junk |-> JunkList[1], rnd |-> RandList[1], alias |-> FALSE]

\* the resolutions that can make a difference to the cycle from c
UbChoices(c) ==
  LET d == Cycle(c, UbDefault)
  IN  [ junk : IF d.touched # {} THEN JunkBytes ELSE {UbDefault.junk},
        rnd : IF d.touched # {} \/ Family(d.opcode) = 12
              THEN RandBytes ELSE {UbDefault.rnd},
        alias : IF "registers" \in d.touched THEN BOOLEAN ELSE {FALSE} ]

\* the states one call of emulateChip8Cycle can leave the machine in
emulateChip8Cycle(c) == { Leave(Cycle(c, ub), ub) : ub \in UbChoices(c) }

---------------------------------------------------------------------------
(* ROM images.  A ROM is the byte sequence loadChip8 reads; the model's     *)
(* ROMs are short programs built from the samples above, each followed by  *)
(* zero memory (the word 0x0000 ends the run through exit(5)).             *)

Ins(f, x, y, n) == f * 4096 + x * 256 + y * 16 + n
InsNN(f, x, nn) == f * 4096 + x * 256 + nn
InsNNN(f, nnn) == f * 4096 + nnn

\* the bytes of a sequence of instruction words, high byte first
RomOf(words) ==
  [i \in 1..(2 * Len(words)) |->
     IF i % 2 = 1 THEN words[(i + 1) \div 2] \div 256 ELSE words[i \div 2] % 256]

\* 6X a; 6Y b; 8XYn
AluRoms ==
  { RomOf(<< InsNN(6, x, a), InsNN(6, y, b), Ins(8, x, y, n) >>) :
      x \in RegSample, y \in RegSample, a \in ByteSample, b \in ByteSample,
      n \in {4, 5} }

\* 60 a; BNNN
JumpRoms ==
  { RomOf(<< InsNN(6, 0, a), InsNNN(11, nnn) >>) :
      a \in ByteSample, nnn \in AddrSample }

\* 6X a; 6Y b; then 3XNN, 4XNN, 5XY0 or 9XY0
SkipRoms ==
  UNION { { RomOf(<< InsNN(6, x, a), InsNN(6, y, b), w >>) :
              w \in { InsNN(3, x, nn) : nn \in SkipBytes }
                    \cup { InsNN(4, x, nn) : nn \in SkipBytes }
                    \cup { Ins(5, x, y, 0), Ins(9, x, y, 0) } } :
          x \in RegSample, y \in RegSample, a \in SkipBytes, b \in SkipBytes }

\* 6X a; 6Y b; then a word that no case of its family's switch names
UndefinedWords(x, y) ==
  { Ins(5, x, y, 1), Ins(9, x, y, 1), InsNNN(0, 291), InsNNN(0, 225),
    Ins(8, x, y, 8), Ins(8, x, y, 15), InsNN(14, x, 0), InsNN(14, x, 159),
    InsNN(15, x, 0), InsNN(15, x, 102) }

UnknownRoms ==
  UNION { { RomOf(<< InsNN(6, x, a), InsNN(6, y, b), w >>) : w \in UndefinedWords(x, y) } :
          x \in RegSample, y \in RegSample, a \in UnknownBytes, b \in UnknownBytes }

\* sprite data that follows the five instructions of a sprite ROM
SpriteData == << 255, 129, 255 >>
SpriteDataAddress == PROGRAM_MEMORY_ADDRESS + 10

\* A i; 60 x; 61 y; D01k; D01k; sprite rows.  i is the sprite data, the
\* glyph of "0" or zero memory.
DrawRoms ==
  { RomOf(<< InsNNN(10, i), InsNN(6, 0, x), InsNN(6, 1, y),
             Ins(13, 0, 1, k), Ins(13, 0, 1, k) >>) \o SpriteData :
      i \in { SpriteDataAddress, 0, 768 }, x \in XSample, y \in YSample,
      k \in 0..MaxHeight }

\* 60 v; F015; F018; FX0A; 6X 07
KeyRoms ==
  { RomOf(<< InsNN(6, 0, v), InsNN(15, 0, 21), InsNN(15, 0, 24),
             InsNN(15, x, 10), InsNN(6, x, 7) >>) :
      v \in 0..MaxTimer, x \in RegSample }

\* 60 v; F015; 61 u; F118; F007; then a jump to itself
TimerRoms ==
  { RomOf(<< InsNN(6, 0, v), InsNN(15, 0, 21), InsNN(6, 1, u), InsNN(15, 1, 24),
             InsNN(15, 0, 7), InsNNN(1, PROGRAM_MEMORY_ADDRESS + 10) >>) :
      v \in 0..MaxTimer, u \in 0..MaxTimer }

Roms == AluRoms \cup JumpRoms \cup SkipRoms \cup UnknownRoms \cup DrawRoms
          \cup KeyRoms \cup TimerRoms

---------------------------------------------------------------------------
(* The machine and its host.                                               *)

Init == \E sf \in BOOLEAN : chip8 = initChip8(Uninitialized(sf))

\* the host loads one of roms after initChip8
Load(roms) ==
  /\ chip8.proc = "initialized"
  /\ \E rom \in roms : chip8' = loadChip8(chip8, rom)

\* the host's instruction-cadence call
Step ==
  /\ chip8.proc = "running"
  /\ \E next \in emulateChip8Cycle(chip8) : chip8' = next

\* the host's 60 Hz call
Tick ==
  /\ chip8.proc = "running"
  /\ chip8' = updateChip8Timers(chip8)

\* the host's keyboard backend presses or releases a key
HostKey ==
  /\ chip8.proc = "running"
  /\ \E k \in HostKeys, down \in BOOLEAN : chip8' = [chip8 EXCEPT !.keys[k] = down]

Run == Step \/ Tick \/ HostKey

Next == Load(Roms) \/ Run
Spec == Init /\ [][Next]_vars

NextAlu == Load(AluRoms) \/ Run
SpecAlu == Init /\ [][NextAlu]_vars

NextJump == Load(JumpRoms) \/ Run
SpecJump == Init /\ [][NextJump]_vars

NextSkip == Load(SkipRoms) \/ Run
SpecSkip == Init /\ [][NextSkip]_vars

NextUnknown == Load(UnknownRoms) \/ Run
SpecUnknown == Init /\ [][NextUnknown]_vars

NextDraw == Load(DrawRoms) \/ Run
SpecDraw == Init /\ [][NextDraw]_vars

NextKey == Load(KeyRoms) \/ Run
SpecKey == Init /\ [][NextKey]_vars

NextTimer == Load(TimerRoms) \/ Run
SpecTimer == Init /\ [][NextTimer]_vars

---------------------------------------------------------------------------
(* Vocabulary of the properties.                                           *)

\* the next cycle fetches both bytes of its instruction word from memory
FetchInBounds(c) == c.proc = "running" /\ c.programCounter + 1 < MEMORY_SIZE

\* the instruction word the next cycle executes
NextWord(c) == c.memory[c.programCounter] * 256 + c.memory[c.programCounter + 1]

\* register[i] of the architecture: sixteen registers, of which 0xF is the
\* flag register
Register(c, i) == IF i < NUM_OF_REGISTERS THEN c.registers[i] ELSE c.carryRegister

\* the X and Y fields of the next word index cells of the register array
OperandsInFile(c) ==
  FieldX(NextWord(c)) < NUM_OF_REGISTERS /\ FieldY(NextWord(c)) < NUM_OF_REGISTERS

\* the next cycle executes a word of family f
AtFamily(f) == FetchInBounds(chip8) /\ Family(NextWord(chip8)) = f

\* the next cycle executes 8XYn
At8XY(n) == AtFamily(8) /\ FieldN(NextWord(chip8)) = n

---------------------------------------------------------------------------
(* The properties.  A property of one cycle is an action formula over the  *)
(* steps that are calls of emulateChip8Cycle.                              *)

\* this step is a call of emulateChip8Cycle
Cycled == chip8.proc = "running" /\ chip8' \in emulateChip8Cycle(chip8)

(* C1: 8XY4 sets the flag to 1 exactly if register[X] + register[Y]        *)
(* exceeds 255 and leaves (register[X] + register[Y]) mod 256 in           *)
(* register[X], for all X, Y and all register contents.  Stated for X, Y   *)
(* inside the register file; X or Y = 0xF is the subject of C19.           *)
C1_AddSetsCarryAndSum ==
  [][ At8XY(4) /\ OperandsInFile(chip8) /\ Cycled =>
        LET x == FieldX(NextWord(chip8))
            y == FieldY(NextWord(chip8))
            sum == Register(chip8, x) + Register(chip8, y)
        IN  /\ chip8'.carryRegister = (IF sum > 255 THEN 1 ELSE 0)
            /\ Register(chip8', x) = sum % 256 ]_vars

(* C2: 8XY5 sets the flag to 0 exactly if register[Y] > register[X] and    *)
(* leaves (register[X] - register[Y]) mod 256 in register[X], for all X, Y *)
(* and all register contents.                                              *)
C2_SubSetsBorrowAndDifference ==
  [][ At8XY(5) /\ Cycled =>
        LET x == FieldX(NextWord(chip8))
            y == FieldY(NextWord(chip8))
            rx == Register(chip8, x)
            ry == Register(chip8, y)
        IN  /\ chip8'.carryRegister = (IF ry > rx THEN 0 ELSE 1)
            /\ Register(chip8', x) = (rx + 256 - ry) % 256 ]_vars

\* what 8XY5 does when X and Y index cells of the register array
SubInsideRegisterFile ==
  [][ At8XY(5) /\ OperandsInFile(chip8) /\ Cycled =>
        LET x == FieldX(NextWord(chip8))
            y == FieldY(NextWord(chip8))
            rx == chip8.registers[x]
            ry == chip8.registers[y]
        IN  /\ chip8'.carryRegister = (IF ry > rx THEN 0 ELSE 1)
            /\ chip8'.registers[x] = (rx + 256 - ry) % 256 ]_vars

(* C3: BNNN sets the program counter to NNN + register[0].                 *)
C3_JumpWithOffset ==
  [][ AtFamily(11) /\ Cycled =>
        chip8'.programCounter = FieldNNN(NextWord(chip8)) + Register(chip8, 0) ]_vars

---------------------------------------------------------------------------
(* Sprite vocabulary: the sprite the next DXYK draws, on the 64 x 32 grid. *)

SpriteX(c) == Register(c, FieldX(NextWord(c)))
SpriteY(c) == Register(c, FieldY(NextWord(c)))
SpriteHeight(c) == FieldN(NextWord(c))

\* bit column of sprite row row is set
SpriteBit(c, row, column) ==
  (c.memory[c.indexRegister + row] \div (2 ^ (7 - column))) % 2 = 1

\* the sprite rows lie in memory
SpriteInMemory(c) == c.indexRegister + SpriteHeight(c) <= MEMORY_SIZE

\* the display cells under the sprite's 8 x K rectangle
CellsUnderSprite(c) ==
  { (SpriteX(c) + column) + 64 * (SpriteY(c) + row) :
      <<row, column>> \in
        { rc \in (0..(SpriteHeight(c) - 1)) \X (0..7) :
            /\ SpriteX(c) + rc[2] < SCREEN_WIDTH
            /\ SpriteY(c) + rc[1] < SCREEN_HEIGHT } }

\* the display cells under the sprite's set bits
CellsUnderSetBits(c) ==
  { (SpriteX(c) + column) + 64 * (SpriteY(c) + row) :
      <<row, column>> \in
        { rc \in (0..(SpriteHeight(c) - 1)) \X (0..7) :
            /\ SpriteX(c) + rc[2] < SCREEN_WIDTH
            /\ SpriteY(c) + rc[1] < SCREEN_HEIGHT
            /\ SpriteBit(c, rc[1], rc[2]) } }

ChangedCells(c, d) == { p \in 0..(NUM_OF_PIXELS - 1) : c.pixels[p] # d.pixels[p] }

(* C4: a DXYK step changes only display cells under the sprite that lie on *)
(* the 64 x 32 grid; a sprite bit aimed outside the grid changes no cell   *)
(* and writes nothing outside the display buffer.                          *)
C4_SpriteClips ==
  [][ AtFamily(13) /\ SpriteInMemory(chip8) /\ Cycled =>
        /\ ChangedCells(chip8, chip8') \subseteq CellsUnderSprite(chip8)
        /\ "pixels" \in chip8'.oob => "pixels" \in chip8.oob ]_vars

\* the word that follows the next one is the same word
SameWordTwice(c) ==
  /\ c.programCounter + 3 < MEMORY_SIZE
  /\ c.memory[c.programCounter + 2] = c.memory[c.programCounter]
  /\ c.memory[c.programCounter + 3] = c.memory[c.programCounter + 1]

(* C5: the same DXYK executed twice in succession on a display whose       *)
(* target cells are off: the first draw turns on exactly the cells under   *)
(* the set sprite bits with flag 0, the second restores the display with   *)
(* flag 1; both set the draw flag and advance the program counter by 2.    *)
(* Stated for sprites with at least one set bit over the grid (with none,  *)
(* no draw can report a collision).                                        *)
C5_DrawTwiceRestores ==
  [][ /\ AtFamily(13) /\ SpriteInMemory(chip8) /\ SameWordTwice(chip8)
      /\ CellsUnderSetBits(chip8) # {}
      /\ \A p \in CellsUnderSetBits(chip8) : chip8.pixels[p] = 0
      /\ Cycled
      =>
      /\ chip8'.pixels = [p \in 0..(NUM_OF_PIXELS - 1) |->
                            IF p \in CellsUnderSetBits(chip8) THEN 1 ELSE chip8.pixels[p]]
      /\ chip8'.carryRegister = 0
      /\ chip8'.drawFlag
      /\ chip8'.programCounter = chip8.programCounter + 2
      /\ \A second \in emulateChip8Cycle(chip8') :
           /\ second.pixels = chip8.pixels
           /\ second.carryRegister = 1
           /\ second.drawFlag
           /\ second.programCounter = chip8.programCounter + 4 ]_vars

---------------------------------------------------------------------------
(* Keypad vocabulary.                                                      *)

PressedKeys(c) == { k \in 0..(NUM_OF_KEYS - 1) : c.keys[k] }

Highest(keys) == CHOOSE k \in keys : \A other \in keys : other <= k

\* the next cycle executes FX0A
AtFX0A == AtFamily(15) /\ FieldNN(NextWord(chip8)) = 10

(* C6: with at least one key pressed, FX0A leaves the highest-indexed      *)
(* pressed key in register[X] and advances the program counter by exactly  *)
(* 2, however many keys are pressed.  Stated for X inside the register     *)
(* file; X = 0xF is the subject of C19.                                    *)
C6_KeyWaitTakesHighestKey ==
  [][ AtFX0A /\ OperandsInFile(chip8) /\ PressedKeys(chip8) # {} /\ Cycled =>
        /\ Register(chip8', FieldX(NextWord(chip8))) = Highest(PressedKeys(chip8))
        /\ chip8'.programCounter = chip8.programCounter + 2 ]_vars

\* this step is a call of updateChip8Timers
Ticked == chip8.proc = "running" /\ chip8' = updateChip8Timers(chip8)

\* a timer value one tick later
CountedDown(t) == IF t > 0 THEN t - 1 ELSE 0

---------------------------------------------------------------------------
(* C8: a word that no case of its family names is reported as unknown and  *)
(* changes nothing else of the machine.                                    *)

Defined(op) ==
  CASE Family(op) = 0 -> FieldNNN(op) \in {224, 238}
    [] Family(op) = 5 -> FieldN(op) = 0
    [] Family(op) = 8 -> FieldN(op) \in (0..7) \cup {14}
    [] Family(op) = 9 -> FieldN(op) = 0
    [] Family(op) = 14 -> FieldNN(op) \in {158, 161}
    [] Family(op) = 15 -> FieldNN(op) \in {7, 10, 21, 24, 30, 41, 51, 85, 101}
    [] OTHER -> TRUE

C8_UnknownWordIsRejected ==
  [][ FetchInBounds(chip8) /\ ~Defined(NextWord(chip8)) /\ Cycled =>
        chip8' = [chip8 EXCEPT !.opcode = NextWord(chip8), !.proc = "exited"] ]_vars

---------------------------------------------------------------------------
(* C9: 3XNN, 4XNN, 5XY0 and 9XY0 advance the program counter by 4 when     *)
(* their condition holds and by 2 otherwise, and change nothing else in    *)
(* registers, flag, memory, display, stack or timers.                      *)

AtSkipWord ==
  /\ FetchInBounds(chip8)
  /\ \/ Family(NextWord(chip8)) \in {3, 4}
     \/ Family(NextWord(chip8)) \in {5, 9} /\ FieldN(NextWord(chip8)) = 0

SkipTaken(c) ==
  LET op == NextWord(c)
      rx == Register(c, FieldX(op))
      ry == Register(c, FieldY(op))
  IN  CASE Family(op) = 3 -> rx = FieldNN(op)
        [] Family(op) = 4 -> rx # FieldNN(op)
        [] Family(op) = 5 -> rx = ry
        [] Family(op) = 9 -> rx # ry

SkipEffect ==
  /\ chip8'.programCounter = chip8.programCounter + (IF SkipTaken(chip8) THEN 4 ELSE 2)
  /\ chip8'.registers = chip8.registers
  /\ chip8'.carryRegister = chip8.carryRegister
  /\ chip8'.memory = chip8.memory
  /\ chip8'.pixels = chip8.pixels
  /\ chip8'.stack = chip8.stack
  /\ chip8'.delayTimer = chip8.delayTimer
  /\ chip8'.soundTimer = chip8.soundTimer

C9_SkipsAdvanceByFourOrTwo == [][ AtSkipWord /\ Cycled => SkipEffect ]_vars

\* what the skips do when X and Y index cells of the register array
SkipsInsideRegisterFile ==
  [][ /\ AtSkipWord
      /\ FieldX(NextWord(chip8)) < NUM_OF_REGISTERS
      /\ Family(NextWord(chip8)) \in {5, 9} => FieldY(NextWord(chip8)) < NUM_OF_REGISTERS
      /\ Cycled
      => SkipEffect ]_vars

---------------------------------------------------------------------------
(* C10: timers under consecutive ticks.                                    *)

RECURSIVE TickN(_, _)
TickN(c, n) == IF n = 0 THEN c ELSE TickN(updateChip8Timers(c), n - 1)

\* a tick from d sets the sound flag
RaisesSoundFlag(d) == updateChip8Timers([d EXCEPT !.soundFlag = FALSE]).soundFlag

\* the ticks, among the first n from c, that set the sound flag
RaisingTicks(c, n) == { i \in 0..(n - 1) : RaisesSoundFlag(TickN(c, i)) }

\* n ticks from c never take a timer below 0 or up, reach 0 once n is at
\* least the timer's value, and raise the sound flag on the tick from 1 only
TimersCountDown(c, n) ==
  /\ \A i \in 0..(n - 1) :
       /\ TickN(c, i + 1).delayTimer \in 0..TickN(c, i).delayTimer
       /\ TickN(c, i + 1).soundTimer \in 0..TickN(c, i).soundTimer
       /\ TickN(c, i).delayTimer = 0 => TickN(c, i + 1).delayTimer = 0
       /\ TickN(c, i).soundTimer = 0 => TickN(c, i + 1).soundTimer = 0
       /\ RaisesSoundFlag(TickN(c, i)) <=> TickN(c, i).soundTimer = 1
  /\ n >= c.delayTimer => TickN(c, n).delayTimer = 0
  /\ n >= c.soundTimer => TickN(c, n).soundTimer = 0

(* C10 as claimed: N >= V ticks take a timer from V to exactly 0 and never *)
(* below, and the sound flag is raised on exactly one tick of the run, the *)
(* one that takes the sound timer from 1 to 0.                             *)
C10_Original ==
  chip8.proc = "running" =>
    \A n \in 0..MaxTicks :
      /\ TimersCountDown(chip8, n)
      /\ n >= chip8.soundTimer => Cardinality(RaisingTicks(chip8, n)) = 1

(* C10 as amended: N >= V ticks take a timer from V to exactly 0 and never *)
(* below; the sound flag is raised on exactly one tick of the run, the one *)
(* that takes the sound timer from 1 to 0, when V >= 1, and on no tick     *)
(* when V = 0.                                                             *)
C10_TimersCountDownToZero ==
  chip8.proc = "running" =>
    \A n \in 0..MaxTicks :
      /\ TimersCountDown(chip8, n)
      /\ n >= chip8.soundTimer =>
           Cardinality(RaisingTicks(chip8, n)) = (IF chip8.soundTimer >= 1 THEN 1 ELSE 0)

\* F118 set the sound timer to 2 or more, and ticks have since counted it
\* down to 0 and raised the sound flag
C10_Witness ==
  /\ chip8.proc = "running"
  /\ Family(chip8.opcode) = 1
  /\ chip8.registers[1] >= 2
  /\ chip8.soundTimer = 0
  /\ chip8.delayTimer = 0
  /\ chip8.soundFlag

---------------------------------------------------------------------------
(* C11: FX55 and FX65.                                                     *)

\* how many of ByteList the store ROMs use as register contents
NumStoreBytes == 2

StoreBytes == Pick(ByteList, NumStoreBytes)

\* where the store ROMs point the index register: free memory, and the
\* last cells of memory
StoreAddresses == { 768, MEMORY_SIZE - 6 }

\* 8005 (flag := 1); 60 a; 61 b; 6E c; A i; FX55; FX65
StoreRoms ==
  { RomOf(<< Ins(8, 0, 0, 5), InsNN(6, 0, a), InsNN(6, 1, b), InsNN(6, 14, c),
             InsNNN(10, i), InsNN(15, x, 85), InsNN(15, x, 101) >>) :
      a \in StoreBytes, b \in StoreBytes, c \in StoreBytes,
      i \in StoreAddresses, x \in RegSample }

NextStore == Load(StoreRoms) \/ Run
SpecStore == Init /\ [][NextStore]_vars

\* the next cycle executes FX55 and the word after it is FX65 with the same X
AtStoreThenLoad ==
  /\ AtFamily(15) /\ FieldNN(NextWord(chip8)) = 85
  /\ chip8.programCounter + 3 < MEMORY_SIZE
  /\ chip8.memory[chip8.programCounter + 2] = chip8.memory[chip8.programCounter]
  /\ chip8.memory[chip8.programCounter + 3] = 101

\* the cells FX55 and FX65 use lie in memory
StoreInMemory(c) == c.indexRegister + FieldX(NextWord(c)) < MEMORY_SIZE

\* the machine with its register file zeroed
ZeroedRegisters(c) ==
  [c EXCEPT !.registers = [r \in 0..(NUM_OF_REGISTERS - 1) |-> 0],
            !.carryRegister = 0]

\* FX55, the register file zeroed, then FX65 with the same X: registers 0..X
\* are back, the registers above X and the index register are where FX55
\* and the zeroing left them
RoundTrip ==
  LET x == FieldX(NextWord(chip8))
  IN  /\ chip8'.indexRegister = chip8.indexRegister
      /\ \A r \in 0..15 : Register(chip8', r) = Register(chip8, r)
      /\ \A loaded \in emulateChip8Cycle(ZeroedRegisters(chip8')) :
           /\ loaded.indexRegister = chip8.indexRegister
           /\ \A r \in 0..15 :
                Register(loaded, r) = (IF r <= x THEN Register(chip8, r) ELSE 0)

(* C11: for every X in 0..15 and all register contents, FX55, then zeroing *)
(* the register file, then FX65 with the same X and index register brings  *)
(* registers 0..X back to their values; neither opcode changes the index   *)
(* register or a register above X.  Stated for accesses that stay inside   *)
(* memory; accesses past its end are the subject of C20.                   *)
C11_StoreLoadRoundTrip ==
  [][ AtStoreThenLoad /\ StoreInMemory(chip8) /\ Cycled => RoundTrip ]_vars

\* the round trip when X indexes a cell of the register array
RoundTripInsideRegisterFile ==
  [][ AtStoreThenLoad /\ StoreInMemory(chip8) /\ OperandsInFile(chip8) /\ Cycled
        => RoundTrip ]_vars

---------------------------------------------------------------------------
(* C12: FX33.                                                              *)

\* how many of BcdList the decimal ROMs use as register contents
NumBcdBytes == 4

BcdList == << 156, 255, 0, 9, 100, 99, 10 >>
BcdBytes == Pick(BcdList, NumBcdBytes)

\* where the decimal ROMs point the index register: free memory, the last
\* three cells of memory, and one cell further
BcdAddresses == { 768, MEMORY_SIZE - 3, MEMORY_SIZE - 2 }

\* 6X v; A i; FX33
BcdRoms ==
  { RomOf(<< InsNN(6, x, v), InsNNN(10, i), InsNN(15, x, 51) >>) :
      v \in BcdBytes, i \in BcdAddresses, x \in RegSample }

NextBcd == Load(BcdRoms) \/ Run
SpecBcd == Init /\ [][NextBcd]_vars

\* the next cycle executes FX33
AtFX33 == AtFamily(15) /\ FieldNN(NextWord(chip8)) = 51

\* the three cells at the index register hold the decimal digits of
\* register[X], hundreds first; nothing else has changed but the program
\* counter, which is 2 further
DigitsStored ==
  LET v == Register(chip8, FieldX(NextWord(chip8)))
      i == chip8.indexRegister
  IN  /\ i + 2 < MEMORY_SIZE
      /\ \A a \in 0..(MEMORY_SIZE - 1) :
           chip8'.memory[a] =
             (CASE a = i -> v \div 100
                [] a = i + 1 -> (v \div 10) % 10
                [] a = i + 2 -> v % 10
                [] OTHER -> chip8.memory[a])
      /\ \A a \in i..(i + 2) : chip8'.memory[a] \in 0..9
      /\ 100 * chip8'.memory[i] + 10 * chip8'.memory[i + 1] + chip8'.memory[i + 2] = v
      /\ chip8'.registers = chip8.registers
      /\ chip8'.carryRegister = chip8.carryRegister
      /\ chip8'.indexRegister = chip8.indexRegister
      /\ chip8'.programCounter = chip8.programCounter + 2

(* C12: for every value v of register[X], FX33 writes the hundreds, tens   *)
(* and ones digits of v to memory[index], memory[index+1], memory[index+2] *)
(* (each in 0..9, and 100 h + 10 t + o = v); no other memory cell, no      *)
(* register and not the index register changes; the program counter        *)
(* advances by 2.                                                          *)
C12_DecimalDigits == [][ AtFX33 /\ Cycled => DigitsStored ]_vars

\* FX33 when X indexes a cell of the register array and the three cells
\* lie in memory
DecimalDigitsInsideBounds ==
  [][ /\ AtFX33 /\ Cycled
      /\ FieldX(NextWord(chip8)) < NUM_OF_REGISTERS
      /\ chip8.indexRegister + 2 < MEMORY_SIZE
      => DigitsStored ]_vars

---------------------------------------------------------------------------
(* C13: initChip8 on a machine that has run.                               *)

\* how many of ResetList the reset ROMs use as register and timer contents
NumResetBytes == 2

ResetList == << 1, 2, 3, 255 >>
ResetBytes == Pick(ResetList, NumResetBytes)

\* 60 v; 6F v; F015; F018; A000; F055 (into the glyph table); D001; a call
\* of the word after it: a program that leaves its mark on registers,
\* timers, index register, memory, display, stack and stack pointer; and
\* 3X00 as the first instruction
ResetRoms ==
  { RomOf(<< InsNN(6, 0, v), InsNN(6, 15, v), InsNN(15, 0, 21), InsNN(15, 0, 24),
             InsNNN(10, 0), InsNN(15, 0, 85), Ins(13, 0, 0, 1),
             InsNNN(2, PROGRAM_MEMORY_ADDRESS + 16) >>) :
      v \in ResetBytes }
  \cup { RomOf(<< InsNN(3, x, 0) >>) : x \in RegSample }

\* the host calls initChip8 on a machine that has run
Reset ==
  /\ chip8.proc \in {"running", "exited"}
  /\ chip8' = initChip8(chip8)

NextReset == Load(ResetRoms) \/ Run \/ Reset
SpecReset == Init /\ [][NextReset]_vars

\* the fields of the struct as initChip8 is to leave them, but for the
\* registers
ResetFields(c) ==
  /\ c.programCounter = 512
  /\ c.opcode = 0
  /\ c.indexRegister = 0
  /\ c.stackPointer = 0
  /\ \A p \in 0..2047 : c.pixels[p] = 0
  /\ \A s \in 0..15 : c.stack[s] = 0
  /\ c.carryRegister = 0
  /\ \A k \in 0..15 : ~c.keys[k]
  /\ \A a \in 0..79 : c.memory[a] = fontset[a + 1]
  /\ \A a \in 80..4095 : c.memory[a] = 0
  /\ c.soundTimer = 0
  /\ c.delayTimer = 0

\* c is a machine that initChip8 has initialized and loadChip8 has loaded:
\* no cycle has run
JustLoaded(c) ==
  /\ c.proc = "running"
  /\ [c EXCEPT !.memory = initChip8(c).memory, !.proc = "initialized"] = initChip8(c)

\* the struct after initChip8, and the register the first instruction of
\* the program reads (with 3X00, which skips exactly if register X is 0)
InitResult ==
  /\ chip8.proc = "initialized" =>
       /\ ResetFields(chip8)
       /\ \A r \in 0..(NUM_OF_REGISTERS - 1) : chip8.registers[r] = 0
  /\ JustLoaded(chip8) /\ AtFamily(3) /\ FieldNN(NextWord(chip8)) = 0 /\ Cycled =>
       chip8'.programCounter = chip8.programCounter + 4

(* C13: after initChip8, whatever the state before: program counter 0x200; *)
(* instruction word, index register and stack pointer 0; every display     *)
(* cell, stack level, general register an opcode can address (0x0..0xF),   *)
(* the flag register and all 16 keys cleared; memory[0x000..0x04F] the     *)
(* glyph table, memory from 0x050 on zero; both timers 0.                  *)
C13_InitIsCanonical == [][ InitResult ]_vars

\* the same for the fifteen cells of the register array
InitClearsTheStruct ==
  [][ OperandsInFile(chip8) => InitResult ]_vars

---------------------------------------------------------------------------
(* C14: 2NNN and 00EE.                                                     *)

\* how many of DepthList the call ROMs use as nesting depths
NumDepths == 3

DepthList == << 16, 1, 17, 2, 3 >>
Depths == Pick(DepthList, NumDepths)

\* the address of subroutine k of a call ROM
Subroutine(k) == PROGRAM_MEMORY_ADDRESS + 4 * k

\* Calls nested d deep.  Subroutine k < d is "call subroutine k + 1;
\* return", subroutine d is "return"; subroutine 0 is the main program,
\* which ends in a jump to itself instead of a return.
CallRom(d) ==
  RomOf([ i \in 1..(2 * d + 1) |->
            IF i = 2 THEN InsNNN(1, Subroutine(0) + 2)
            ELSE IF i % 2 = 1 /\ i < 2 * d THEN InsNNN(2, Subroutine((i + 1) \div 2))
            ELSE 238 ])

\* the call ROMs, and a ROM that returns with nothing on the stack
CallRoms == { CallRom(d) : d \in Depths } \cup { RomOf(<< 238 >>) }

NextCall == Load(CallRoms) \/ Run
SpecCall == Init /\ [][NextCall]_vars

AtCall(c) == FetchInBounds(c) /\ Family(NextWord(c)) = 2
AtReturn(c) == FetchInBounds(c) /\ NextWord(c) = 238

\* the machine one cycle later
OneCycle(c) == CHOOSE next \in emulateChip8Cycle(c) : TRUE

\* the machine now and after each of the next n cycles
RECURSIVE Trajectory(_, _)
Trajectory(c, n) ==
  IF n = 0 THEN << c >>
  ELSE LET t == Trajectory(c, n - 1) IN Append(t, OneCycle(t[Len(t)]))

\* the next d cycles are calls and the d after them returns; t[i + 1] is
\* the machine after i cycles
CallsThenReturns(t, d) ==
  /\ \A k \in 1..d : AtCall(t[k])
  /\ \A k \in (d + 1)..(2 * d) : AtReturn(t[k])

\* return j lands on the word after the call it matches, the last call
\* first, and the stack pointer is back where it was
ReturnsMatchCalls(t, d) ==
  /\ \A j \in 1..d : t[d + j + 1].programCounter = t[d - j + 1].programCounter + 2
  /\ t[2 * d + 1].stackPointer = t[1].stackPointer

\* every run of d calls and d returns from c that fits the stack is matched
Matched(c) ==
  AtCall(c) =>
    \A d \in 1..(NUM_OF_STACK_LEVELS - c.stackPointer) :
      LET t == Trajectory(c, 2 * d)
      IN  CallsThenReturns(t, d) => ReturnsMatchCalls(t, d)

(* C14: 2NNN stores the address of the call at stack[stack pointer],       *)
(* increments the stack pointer and jumps to NNN; 00EE decrements the      *)
(* stack pointer and sets the program counter to stack[stack pointer] + 2. *)
(* Hence d calls followed by d returns, to a nesting depth of at most 16,  *)
(* return to the call sites in reverse order, each to the word after its   *)
(* call, and leave the stack pointer where it was before the first call.   *)
C14_CallsAndReturnsMatch ==
  [][ /\ AtCall(chip8) /\ chip8.stackPointer < NUM_OF_STACK_LEVELS /\ Cycled =>
           /\ chip8'.stack = [chip8.stack EXCEPT ![chip8.stackPointer] = chip8.programCounter]
           /\ chip8'.stackPointer = chip8.stackPointer + 1
           /\ chip8'.programCounter = FieldNNN(NextWord(chip8))
      /\ AtReturn(chip8) /\ chip8.stackPointer \in 1..NUM_OF_STACK_LEVELS /\ Cycled =>
           /\ chip8'.stackPointer = chip8.stackPointer - 1
           /\ chip8'.programCounter = chip8.stack[chip8.stackPointer - 1] + 2
           /\ chip8'.stack = chip8.stack
      /\ Cycled => Matched(chip8) ]_vars

\* sixteen nested calls have returned to the main program
C14_Witness ==
  /\ chip8.proc = "running"
  /\ chip8.opcode = 238
  /\ chip8.programCounter = Subroutine(0) + 2
  /\ chip8.stackPointer = 0
  /\ chip8.stack[NUM_OF_STACK_LEVELS - 1] = Subroutine(NUM_OF_STACK_LEVELS - 1)
  /\ "stack" \notin chip8.oob

---------------------------------------------------------------------------
(* C15 and C16: what a cycle leaves alone.  The ROMs run every instruction *)
(* of the machine once, with both timers counting and keys pressed.        *)

\* where the instruction ROMs jump and call: the word after the instruction
OpTarget == PROGRAM_MEMORY_ADDRESS + 12

\* one word of every case of emulateChip8Cycle, with register operand x
OpWords(x) ==
  { 224, 238, InsNNN(1, OpTarget), InsNNN(2, OpTarget), InsNN(3, x, 1),
    InsNN(4, x, 1), Ins(5, x, 1, 0), InsNN(6, x, 7), InsNN(7, x, 255),
    Ins(9, x, 1, 0), InsNNN(10, 291), InsNNN(11, OpTarget), InsNN(12, x, 255),
    Ins(13, x, 1, 1), InsNN(14, x, 158), InsNN(14, x, 161) }
  \cup { Ins(8, x, 1, n) : n \in (0..7) \cup {14} }
  \cup { InsNN(15, x, nn) : nn \in {7, 10, 21, 24, 30, 41, 51, 85, 101} }

\* 60 01; 61 0F; F015; F018; A300; then the instruction
OpRoms ==
  { RomOf(<< InsNN(6, 0, 1), InsNN(6, 1, 15), InsNN(15, 0, 21), InsNN(15, 0, 24),
             InsNNN(10, 768), w >>) :
      w \in UNION { OpWords(x) : x \in RegSample } }

NextOp == Load(OpRoms) \/ Run
SpecOp == Init /\ [][NextOp]_vars

\* the next cycle executes FXnn
AtFXnn(nn) == AtFamily(15) /\ FieldNN(NextWord(chip8)) = nn

\* what a cycle does to the timers and the sound flag
TimerFrame ==
  /\ ~AtFXnn(21) => chip8'.delayTimer = chip8.delayTimer
  /\ ~AtFXnn(24) => chip8'.soundTimer = chip8.soundTimer
  /\ AtFXnn(21) => chip8'.delayTimer = Register(chip8, FieldX(NextWord(chip8)))
  /\ AtFXnn(24) => chip8'.soundTimer = Register(chip8, FieldX(NextWord(chip8)))
  /\ chip8'.soundFlag = chip8.soundFlag

(* C15: a cycle of any instruction but FX15 and FX18 leaves both timers    *)
(* unchanged; FX15 changes only the delay timer, to register[X], and FX18  *)
(* only the sound timer, to register[X]; no cycle raises or clears the     *)
(* sound flag.  Only a tick counts the timers down.                        *)
C15_OnlyTicksCountDown ==
  [][ /\ FetchInBounds(chip8) /\ Cycled => TimerFrame
      /\ Ticked => /\ chip8'.delayTimer = CountedDown(chip8.delayTimer)
                   /\ chip8'.soundTimer = CountedDown(chip8.soundTimer) ]_vars

\* the same when X indexes a cell of the register array
TimerFrameInsideRegisterFile ==
  [][ FetchInBounds(chip8) /\ OperandsInFile(chip8) /\ Cycled => TimerFrame ]_vars

---------------------------------------------------------------------------
(* C17: after any cycles, for any program, the stack pointer is in 0..16   *)
(* and no cycle has read or written a stack level outside 0..15: a call    *)
(* with 16 frames on the stack and a return with none do not corrupt the   *)
(* stack pointer or index the stack out of range.                          *)
C17_StackStaysInBounds ==
  /\ chip8.stackPointer \in 0..NUM_OF_STACK_LEVELS
  /\ "stack" \notin chip8.oob

---------------------------------------------------------------------------
(* C18: the program counter.                                               *)

\* the largest ROM loadChip8 accepts, in words: it fills memory to its end
FullRomWords == (MEMORY_SIZE - PROGRAM_MEMORY_ADDRESS) \div 2

\* a jump to the last word of memory, which is last
EndRom(last) ==
  RomOf([ i \in 1..FullRomWords |->
            IF i = 1 THEN InsNNN(1, MEMORY_SIZE - 2)
            ELSE IF i = FullRomWords THEN last
            ELSE 0 ])

\* 1NNN, 2NNN and BNNN to the sampled addresses (but to the instruction
\* itself); 6000 and 3000 (a skip that is taken) as the last word of memory
PcRoms ==
  { RomOf(<< InsNNN(f, nnn) >>) :
      f \in {1, 2, 11}, nnn \in AddrSample \ {PROGRAM_MEMORY_ADDRESS} }
  \cup { EndRom(InsNN(6, 0, 0)), EndRom(InsNN(3, 0, 0)) }

NextPc == Load(PcRoms) \/ Run
SpecPc == Init /\ [][NextPc]_vars

(* C18: after any cycles from the initial state, for any program, the      *)
(* program counter is in 0..4094, so that every fetch reads the two cells  *)
(* memory[pc] and memory[pc+1] of the memory: across advancing past the    *)
(* end of memory, skips, 1NNN and 2NNN to 0xFFF, BNNN and 00EE.            *)
C18_PcStaysFetchable ==
  /\ chip8.programCounter \in 0..(MEMORY_SIZE - 2)
  /\ "memory" \notin chip8.oob

---------------------------------------------------------------------------
(* C19: register 0xF.                                                      *)

\* how many of ByteList the flag ROMs use as register contents
NumFlagBytes == 2

FlagBytes == Pick(ByteList, NumFlagBytes)

\* words that read register 0xF (3FNN, 8XF0, FF55) and words that write it
\* (6FNN)
FlagWords ==
  { InsNN(3, 15, 0), InsNN(3, 15, 1), Ins(8, 2, 15, 0), InsNN(15, 15, 85),
    InsNN(6, 15, 0), InsNN(6, 15, 1), InsNN(6, 15, 7) }

\* A300; 60 a; 61 b; 8015 (flag := 1 unless b > a); then the word
FlagRoms ==
  { RomOf(<< InsNNN(10, 768), InsNN(6, 0, a), InsNN(6, 1, b), Ins(8, 0, 1, 5), w >>) :
      a \in FlagBytes, b \in FlagBytes, w \in FlagWords }

NextFlag == Load(FlagRoms) \/ Run
SpecFlag == Init /\ [][NextFlag]_vars

\* this cycle indexes no register outside the register file
StaysInRegisterFile == "registers" \in chip8'.oob => "registers" \in chip8.oob

\* what 3FNN, 8XF0, FF55 and 6FNN do when register 0xF is the flag register
FlagIsRegisterF ==
  LET op == NextWord(chip8)
      flag == chip8.carryRegister
  IN  /\ Family(op) = 3 /\ FieldX(op) = 15 =>
           chip8'.programCounter =
             chip8.programCounter + (IF flag = FieldNN(op) THEN 4 ELSE 2)
      /\ Family(op) = 8 /\ FieldY(op) = 15 /\ FieldN(op) = 0 /\ FieldX(op) < 15 =>
           chip8'.registers[FieldX(op)] = flag
      /\ Family(op) = 15 /\ FieldX(op) = 15 /\ FieldNN(op) = 85
           /\ chip8.indexRegister + 15 < MEMORY_SIZE =>
           chip8'.memory[chip8.indexRegister + 15] = flag
      /\ Family(op) = 6 /\ FieldX(op) = 15 =>
           chip8'.carryRegister = FieldNN(op)

(* C19: the register file has a cell for every index a 4-bit field can     *)
(* select, and index 0xF is the flag register: no cycle with X = 0xF or    *)
(* Y = 0xF accesses a register outside the file; an opcode that reads      *)
(* register 0xF (3FNN, 8XF0, FF55) sees the flag a flag-writing opcode     *)
(* left, and an opcode that writes register 0xF (6FNN) changes the flag.   *)
C19_FlagIsRegisterF ==
  [][ FetchInBounds(chip8) /\ Cycled => StaysInRegisterFile /\ FlagIsRegisterF ]_vars

---------------------------------------------------------------------------
(* C20: memory accesses through the index register.                        *)

\* how many of IndexList the index ROMs add to the index register
NumIndexBytes == 2

IndexList == << 0, 255, 1, 5 >>
IndexBytes == Pick(IndexList, NumIndexBytes)

\* where the index ROMs point the index register: the last cell of memory
\* and a few cells before it
IndexAddresses == { MEMORY_SIZE - 1, MEMORY_SIZE - 6 }

\* the words that reach memory through the index register: D112 (two
\* sprite rows), F033, F155, F165
IndexedWords ==
  { Ins(13, 1, 1, 2), InsNN(15, 0, 51), InsNN(15, 1, 85), InsNN(15, 1, 101) }

\* A i; 60 v; F01E; then the word
IndexRoms ==
  { RomOf(<< InsNNN(10, i), InsNN(6, 0, v), InsNN(15, 0, 30), w >>) :
      i \in IndexAddresses, v \in IndexBytes, w \in IndexedWords }

NextIndex == Load(IndexRoms) \/ Run
SpecIndex == Init /\ [][NextIndex]_vars

\* the next cycle executes DXYK, FX33, FX55 or FX65
AtIndexedWord ==
  \/ AtFamily(13)
  \/ AtFamily(15) /\ FieldNN(NextWord(chip8)) \in {51, 85, 101}

\* the highest cell the next cycle reaches through the index register
LastIndexedCell(c) ==
  LET op == NextWord(c)
  IN  CASE Family(op) = 13 -> c.indexRegister + FieldN(op) - 1
        [] FieldNN(op) = 51 -> c.indexRegister + 2
        [] OTHER -> c.indexRegister + FieldX(op)

\* the cycle from c indexes memory inside its 4096 cells
StaysInMemory(c) == \A ub \in UbChoices(c) : "memory" \notin Cycle(c, ub).touched

\* this cycle has reported a fault and has read and written no cell
Faulted ==
  /\ chip8'.proc = "exited"
  /\ chip8'.memory = chip8.memory
  /\ chip8'.registers = chip8.registers
  /\ chip8'.pixels = chip8.pixels

(* C20: no access through the index register touches memory outside cells  *)
(* 0..4095: the sprite fetch of DXYK, the writes of FX33 and the accesses  *)
(* of FX55 and FX65 stay inside memory or are reported as a fault without  *)
(* reading or writing a cell, also after FX1E has taken the index register *)
(* to 0xFFF or above.                                                      *)
C20_IndexedAccessStaysInMemory ==
  [][ AtIndexedWord /\ Cycled => StaysInMemory(chip8) \/ Faulted ]_vars

\* the accesses that end inside memory stay inside it
IndexedAccessInsideMemory ==
  [][ AtIndexedWord /\ LastIndexedCell(chip8) < MEMORY_SIZE /\ Cycled
        => StaysInMemory(chip8) ]_vars

---------------------------------------------------------------------------
(* C21: the glyph table in memory.                                         *)

\* how many of GlyphList the glyph ROMs use as characters
NumGlyphChars == 2

GlyphList == << 0, 15, 7, 10 >>
GlyphChars == Pick(GlyphList, NumGlyphChars)

\* where the glyph ROMs point the index register: the first cell of the
\* glyph table, its last two cells, the cell after it, and a data cell
GlyphAddresses == { 0, 78, 80, 768 }

\* F155 and F033 store through the index register, F165 loads through it
GlyphWords == { InsNN(15, 1, 85), InsNN(15, 0, 51), InsNN(15, 1, 101) }

\* A i; 60 c; 61 FF; the word; FX29
GlyphRoms ==
  { RomOf(<< InsNNN(10, i), InsNN(6, 0, c), InsNN(6, 1, 255), w, InsNN(15, x, 41) >>) :
      i \in GlyphAddresses, c \in GlyphChars, w \in GlyphWords, x \in RegSample }

NextGlyph == Load(GlyphRoms) \/ Run
SpecGlyph == Init /\ [][NextGlyph]_vars

\* memory[0x000..0x04F] holds the built-in glyph table
GlyphTableIntact(c) == \A a \in 0..79 : c.memory[a] = fontset[a + 1]

\* FX29 with a character in register X has left the index register on the
\* five cells of its glyph, and they hold the built-in glyph
PointsAtGlyph ==
  LET ch == Register(chip8, FieldX(NextWord(chip8)))
  IN  ch \in 0..15 =>
        /\ chip8'.indexRegister = 5 * ch
        /\ \A r \in 0..4 : chip8'.memory[5 * ch + r] = fontset[5 * ch + r + 1]

(* C21: the glyph table is fixed: in every state reached from the initial  *)
(* state by cycles and ticks, memory[0x000..0x04F] is the built-in 80-byte *)
(* glyph table, so that FX29 with register[X] = c in 0..15 leaves the      *)
(* index register on the unchanged 5-byte glyph of character c, at 5 * c.  *)
C21_GlyphTableIsFixed ==
  [][ /\ GlyphTableIntact(chip8')
      /\ AtFXnn(41) /\ Cycled => PointsAtGlyph ]_vars

\* the glyph table changes only under FX33 and FX55 with the index register
\* at or below its last cell
GlyphTableChangesOnlyByStores ==
  [][ Cycled \/ Ticked =>
        \/ \A a \in 0..79 : chip8'.memory[a] = chip8.memory[a]
        \/ (AtFXnn(51) \/ AtFXnn(85)) /\ chip8.indexRegister <= 79 ]_vars

\* FX29 on a register of the register file, with the table intact
GlyphOfRegisterInFile ==
  [][ /\ AtFXnn(41) /\ Cycled /\ GlyphTableIntact(chip8)
      /\ FieldX(NextWord(chip8)) < NUM_OF_REGISTERS
      => PointsAtGlyph ]_vars

---------------------------------------------------------------------------
(* C22: every cycle reports an error or moves on.                          *)

\* where the word under test lies in the progress ROMs
ProgressWordAddress == PROGRAM_MEMORY_ADDRESS + 2

\* words of the 0xE family whose low byte is neither 0x9E nor 0xA1
SilentWords(x) == { InsNN(14, x, 0), InsNN(14, x, 159), InsNN(14, x, 255) }

\* 6X 01; then one word of every case, a jump to itself, or a word of the
\* 0xE family that no case names
ProgressRoms ==
  { RomOf(<< InsNN(6, x, 1), w >>) :
      x \in RegSample,
      w \in UNION { OpWords(r) \cup SilentWords(r) : r \in RegSample }
              \cup { InsNNN(1, ProgressWordAddress) } }

NextProgress == Load(ProgressRoms) \/ Run
SpecProgress == Init /\ [][NextProgress]_vars

\* this cycle has reported an error
Reported == chip8'.proc = "exited"

\* this cycle has moved the program counter
Progressed == chip8'.programCounter # chip8.programCounter

\* the next cycle executes FX0A with no key pressed
WaitsForKey == AtFX0A /\ PressedKeys(chip8) = {}

\* the next cycle executes a jump, a call or a return
AtJump ==
  \/ AtFamily(1) \/ AtFamily(2) \/ AtFamily(11)
  \/ FetchInBounds(chip8) /\ NextWord(chip8) = 238

\* the next cycle executes a word of the 0xE family that no case names
AtSilentWord == AtFamily(14) /\ FieldNN(NextWord(chip8)) \notin {158, 161}

(* C22: every cycle either reports an error or moves the program counter;  *)
(* only FX0A with no key pressed, and a jump, may leave the program        *)
(* counter where it was.  A word of the 0xE family whose low byte is       *)
(* neither 0x9E nor 0xA1 does not leave the machine at the same program    *)
(* counter with nothing changed and no error, to be executed again by      *)
(* every later cycle.                                                      *)
C22_EveryStepProgresses ==
  [][ FetchInBounds(chip8) /\ Cycled =>
        Reported \/ Progressed \/ WaitsForKey \/ AtJump ]_vars

\* every cycle of a word that is not such a word of the 0xE family
EveryOtherStepProgresses ==
  [][ FetchInBounds(chip8) /\ Cycled /\ ~AtSilentWord =>
        Reported \/ Progressed \/ WaitsForKey \/ AtJump ]_vars

\* such a word of the 0xE family changes nothing but the opcode field
SilentWordChangesNothing ==
  [][ AtSilentWord /\ Cycled =>
        chip8' = [chip8 EXCEPT !.opcode = NextWord(chip8)] ]_vars

---------------------------------------------------------------------------
(* C23: cycles and ticks between FX15 and FX07.                            *)

\* how many of the filler programs the delay ROMs put between FX15 and FX07
NumFillers == 2

\* how many cycles the interleavings are followed for
MaxSteps == 4

\* cycles that are not FX15, on the register FX15 has read and the one FX07
\* is to write: FX18, 7X01 and 00E0; 6X09 and FY1E; none
Fillers(x, y) ==
  Pick(<< << InsNN(15, x, 24), InsNN(7, x, 1), 224 >>,
          << InsNN(6, x, 9), InsNN(15, y, 30) >>,
          << >> >>, NumFillers)

\* 6X v; FX15; the filler; FY07
DelayRoms ==
  UNION { { RomOf(<< InsNN(6, x, v), InsNN(15, x, 21) >> \o f \o << InsNN(15, y, 7) >>) :
              f \in Fillers(x, y) } :
          x \in RegSample, y \in RegSample, v \in 0..MaxTimer }

NextDelay == Load(DelayRoms) \/ Run
SpecDelay == Init /\ [][NextDelay]_vars

\* what the next FX07 leaves in its register when the host, from c on,
\* calls updateChip8Timers exactly n times, in any order with at most
\* steps calls of emulateChip8Cycle that do not execute FX15, and then the
\* cycle of FX07
RECURSIVE DelayReads(_, _, _)
DelayReads(c, n, steps) ==
  IF ~FetchInBounds(c) THEN {}
  ELSE LET op == NextWord(c)
           ticked == IF n > 0 THEN DelayReads(updateChip8Timers(c), n - 1, steps)
                     ELSE {}
           cycled ==
             CASE Family(op) = 15 /\ FieldNN(op) = 7 ->
                    IF n = 0
                    THEN { Register(next, FieldX(op)) : next \in emulateChip8Cycle(c) }
                    ELSE {}
               [] Family(op) = 15 /\ FieldNN(op) = 21 -> {}
               [] OTHER ->
                    IF steps = 0 THEN {}
                    ELSE UNION { DelayReads(next, n, steps - 1) :
                                   next \in emulateChip8Cycle(c) }
       IN  ticked \cup cycled

\* V less n, and 0 from V ticks on
TimerAfter(v, n) == IF v > n THEN v - n ELSE 0

\* after this cycle of FX15, n ticks and any cycles end in FX07 reading
\* register[X] less n
ReadsDelayLessTicks ==
  LET v == Register(chip8, FieldX(NextWord(chip8)))
  IN  \A n \in 0..MaxTicks :
        \A read \in DelayReads(chip8', n, MaxSteps) : read = TimerAfter(v, n)

(* C23: cycles and ticks interleave consistently on the delay timer: after *)
(* FX15 has set the delay timer to V = register[X], when the host calls    *)
(* tick exactly N times, in any order with any number of cycles that are   *)
(* not FX15, a following FX07 reads max(V - N, 0) into its register; the   *)
(* number and kind of the cycles in between does not change the value.     *)
C23_TicksAloneCountTheDelay ==
  [][ AtFXnn(21) /\ Cycled => ReadsDelayLessTicks ]_vars

\* the registers the FX07 words of the program name
DelayReaders(c) ==
  { c.memory[a] % 16 :
      a \in { b \in { PROGRAM_MEMORY_ADDRESS + 2 * i : i \in 0..(MaxSteps + 1) } :
                c.memory[b] \div 16 = 15 /\ c.memory[b + 1] = 7 } }

\* the same when FX15 and FX07 name registers of the register file, and
\* every number of ticks does end in a read
DelayInsideRegisterFile ==
  [][ /\ AtFXnn(21) /\ Cycled
      /\ FieldX(NextWord(chip8)) < NUM_OF_REGISTERS
      /\ \A y \in DelayReaders(chip8) : y < NUM_OF_REGISTERS
      => /\ ReadsDelayLessTicks
         /\ \A n \in 0..MaxTicks : DelayReads(chip8', n, MaxSteps) # {} ]_vars

---------------------------------------------------------------------------
(* C24: initChip8 on two states of the machine.                            *)

\* initChip8 leaves the two states equal in every field
SameAfterInit(c, d) == initChip8(c) = initChip8(d)

\* initChip8 leaves the two states equal in every field but the sound flag
SameButSoundFlagAfterInit(c, d) ==
  [initChip8(c) EXCEPT !.soundFlag = FALSE] = [initChip8(d) EXCEPT !.soundFlag = FALSE]

(* C24: initialization is complete and independent of the history: calling *)
(* initChip8 on two states of the machine that differ in any way (memory,  *)
(* registers, flag register, stack, timers, display, draw flag, sound      *)
(* flag) yields two states that agree on every field, so that no flag      *)
(* raised before, such as a sound flag raised by a tick and not yet        *)
(* cleared by the host, survives it.  Stated of the two states of every    *)
(* step of the host, and so of any two states of a run.                    *)
C24_InitForgetsHistory ==
  [][ SameAfterInit(chip8, chip8') ]_vars

\* every field but the sound flag is forgotten
InitForgetsAllButSoundFlag ==
  [][ SameButSoundFlagAfterInit(chip8, chip8') ]_vars

\* the sound flag is as it was before initChip8
InitKeepsSoundFlag ==
  [][ chip8' = initChip8(chip8) => chip8'.soundFlag = chip8.soundFlag ]_vars

===========================================================================
